---- MODULE Spec2Model ----
(***************************************************************************)
(* Model of the OSS gateway of src/main.go: a gin HTTP server whose        *)
(* handlers pass requests through to one bucket of an object store.        *)
(*                                                                         *)
(* Strings that the handlers take apart or build (object keys, extensions, *)
(* generated file names, header values) are sequences of one-character     *)
(* strings; fixed message texts are plain strings.                         *)
(***************************************************************************)
EXTENDS Integers, Sequences, FiniteSets, Bags, TLC

VARIABLES
    store,      \* the bucket: key -> <<size in bytes>>, or Absent
    alive,      \* FALSE once log.Fatal/log.Fatalf has ended the process
    inflight,   \* bag of the handler invocations that are waiting partway through
    last,       \* outcome of the most recent handler step (response or process exit)
    watch,      \* bookkeeping: one key and how far its upload/delete round trip got
    fnIn,       \* input of the file-name generation under SpecName
    fnOut       \* its output

vars == <<store, alive, inflight, last, watch, fnIn, fnOut>>

-----------------------------------------------------------------------------
(* Bounds of the model *)

MaxInFlight == 1    \* handler invocations that may be waiting partway through at once
MaxPage == 2        \* largest page the store may return from one listing call
MaxSize == 12       \* largest object size in bytes
MaxSeed == 1        \* number of pseudorandom draw sequences considered
MaxTime == 10       \* latest clock reading (Unix seconds)
MaxKeyLen == 4      \* longest key given to the file-name generation under SpecName

-----------------------------------------------------------------------------
(* Characters and strings *)

\* Bytes in ascending byte order (the store lists keys in byte order).
Ascii == <<".", "/",
           "0", "1", "2", "3", "4", "5", "6", "7", "8", "9",
           "A", "B", "C", "D", "E", "F", "G", "H", "I", "J", "K", "L", "M",
           "N", "O", "P", "Q", "R", "S", "T", "U", "V", "W", "X", "Y", "Z",
           "_",
           "a", "b", "c", "d", "e", "f", "g", "h", "i", "j", "k", "l", "m",
           "n", "o", "p", "q", "r", "s", "t", "u", "v", "w", "x", "y", "z">>

CharCode(c) == CHOOSE i \in 1..Len(Ascii) : Ascii[i] = c

Digits == <<"0", "1", "2", "3", "4", "5", "6", "7", "8", "9">>

RECURSIVE ToDec(_)
\* fmt's %d of a non-negative integer
ToDec(n) == IF n < 10 THEN <<Digits[n + 1]>>
            ELSE ToDec(n \div 10) \o <<Digits[(n % 10) + 1]>>

RECURSIVE StrLess(_, _)
\* byte-wise lexicographic order on strings
StrLess(a, b) ==
    IF b = <<>> THEN FALSE
    ELSE IF a = <<>> THEN TRUE
    ELSE IF a[1] # b[1] THEN CharCode(a[1]) < CharCode(b[1])
    ELSE StrLess(Tail(a), Tail(b))

-----------------------------------------------------------------------------
(* Pure helpers of the download handler *)

RECURSIVE ExtScan(_, _)
\* the loop of filepath.Ext: from the last byte backwards, up to a path separator
ExtScan(path, i) ==
    IF i < 1 \/ path[i] = "/" THEN <<>>
    ELSE IF path[i] = "." THEN SubSeq(path, i, Len(path))
    ELSE ExtScan(path, i - 1)

Ext(path) == ExtScan(path, Len(path))

DefaultExt == <<".", "b", "i", "n">>

\* variant: the default extension is forgotten
resolveExtNoDefault(objectName) == Ext(objectName)

\* ext := filepath.Ext(objectName); if ext == "" { ext = ".bin" }
resolveExt(objectName) ==
    IF Ext(objectName) = <<>> THEN DefaultExt ELSE Ext(objectName)

charset == <<"a", "b", "c", "d", "e", "f", "g", "h", "i", "j", "k", "l", "m",
             "n", "o", "p", "q", "r", "s", "t", "u", "v", "w", "x", "y", "z",
             "A", "B", "C", "D", "E", "F", "G", "H", "I", "J", "K", "L", "M",
             "N", "O", "P", "Q", "R", "S", "T", "U", "V", "W", "X", "Y", "Z",
             "0", "1", "2", "3", "4", "5", "6", "7", "8", "9">>

length == 10

\* The results of the successive rand.Intn(len(charset)) calls of one invocation:
\* any values in 0..len(charset)-1; the model considers MaxSeed such sequences.
RandomDraws ==
    { [i \in 1..(length + 2) |-> (s * i * 17 + s * 5) % Len(charset)] : s \in 1..MaxSeed }

\* readings of time.Now().Unix(): by a download, and under SpecName
Timestamps == {MaxTime}

NameTimes == 0..MaxTime

RECURSIVE randomChars(_, _)
\* for i := 0; i < length; i++ { filename = append(filename, charset[rand.Intn(...)]) }
randomChars(draws, i) ==
    IF i >= length THEN <<>>
    ELSE <<charset[draws[i + 1] + 1]>> \o randomChars(draws, i + 1)

\* fmt.Sprintf("%d_%s%s", timestamp, string(filename), ext)
generateRandomFilename(ext, timestamp, draws) ==
    ToDec(timestamp) \o <<"_">> \o randomChars(draws, 0) \o ext

RECURSIVE JoinBadVerb(_)
JoinBadVerb(ss) ==
    IF ss = <<>> THEN <<>>
    ELSE <<"%", "!", "d", "(", "s", "t", "r", "i", "n", "g", "=">> \o ss[1] \o <<")">>
         \o (IF Len(ss) > 1 THEN <<" ">> ELSE <<>>) \o JoinBadVerb(Tail(ss))

\* fmt.Sprintf("%d", v): an integer prints in decimal; a []string prints
\* bracketed, each element as the bad-verb form %!d(string=...)
SprintfD(v) ==
    IF v.type = "int" THEN ToDec(v.val)
    ELSE <<"[">> \o JoinBadVerb(v.val) \o <<"]">>

-----------------------------------------------------------------------------
(* The object store behind the bucket handle (external service) *)

\* an object is <<size>>; a key without object maps to Absent
Absent == <<>>

Keys == { <<"a">>, <<"a", ".", "t">>, <<"b", ".">> }

Sizes == {MaxSize}

Nil == [kind |-> "nil", code |-> "", message |-> ""]
NoSuchKey == [kind |-> "service", code |-> "NoSuchKey",
              message |-> "The specified key does not exist."]
ServiceFault == [kind |-> "service", code |-> "InternalError",
                 message |-> "We encountered an internal error."]
TransportFault == [kind |-> "transport", code |-> "", message |-> "i/o timeout"]

\* errors that arise outside the store: a request without the form field, a
\* multipart file that cannot be opened, a client that stops reading
MissingFile == [kind |-> "input", code |-> "", message |-> "http: no such file"]
OpenError == [kind |-> "io", code |-> "", message |-> "open failed"]
CopyError == [kind |-> "io", code |-> "", message |-> "write failed"]

\* what a store call may suffer besides its regular result
Faults == {Nil, ServiceFault, TransportFault}

\* err.Error()
ErrorString(e) ==
    IF e.kind = "service" THEN "oss: service returned error: " \o e.code ELSE e.message

NoMeta == [ContentLength |-> <<>>]

\* bucket.GetObjectMeta: the object's headers; Content-Length is a list of one string
GetObjectMeta(st, k, fault) ==
    IF fault # Nil THEN [err |-> fault, meta |-> NoMeta]
    ELSE IF st[k] = Absent THEN [err |-> NoSuchKey, meta |-> NoMeta]
    ELSE [err |-> Nil, meta |-> [ContentLength |-> <<ToDec(st[k][1])>>]]

\* bucket.GetObject: a stream over the object's bytes
GetObject(st, k, fault) ==
    IF fault # Nil THEN [err |-> fault, size |-> Absent]
    ELSE IF st[k] = Absent THEN [err |-> NoSuchKey, size |-> Absent]
    ELSE [err |-> Nil, size |-> st[k]]

\* bucket.PutObject: last write wins
PutObject(st, k, size, fault) ==
    IF fault # Nil THEN [err |-> fault, store |-> st]
    ELSE [err |-> Nil, store |-> [st EXCEPT ![k] = <<size>>]]

\* bucket.DeleteObject: deleting a missing key is no error
DeleteObject(st, k, fault) ==
    IF fault # Nil THEN [err |-> fault, store |-> st]
    ELSE [err |-> Nil, store |-> [st EXCEPT ![k] = Absent]]

Present(st) == {k \in Keys : st[k] # Absent}

RECURSIVE InOrder(_)
\* a set of keys as the sequence in ascending byte order
InOrder(S) ==
    IF S = {} THEN <<>>
    ELSE LET m == CHOOSE x \in S : \A y \in S \ {x} : StrLess(x, y)
         IN <<m>> \o InOrder(S \ {m})

\* bucket.ListObjects(oss.Marker(marker)): the keys after marker in byte order,
\* at most maxKeys of them; NextMarker is the last key of a truncated page
ListObjects(st, marker, maxKeys, fault) ==
    IF fault # Nil
    THEN [err |-> fault, Objects |-> <<>>, IsTruncated |-> FALSE, NextMarker |-> <<>>]
    ELSE LET rest == InOrder({k \in Present(st) : StrLess(marker, k)})
             n == IF Len(rest) < maxKeys THEN Len(rest) ELSE maxKeys
             page == SubSeq(rest, 1, n)
             more == Len(rest) > n
         IN [err |-> Nil, Objects |-> page, IsTruncated |-> more,
             NextMarker |-> IF more THEN page[n] ELSE <<>>]

-----------------------------------------------------------------------------
(* Outcomes of handler steps *)

NoReq == [op |-> "none", key |-> <<>>, file |-> FALSE]
Req(op, key) == [op |-> op, key |-> key, file |-> FALSE]

NoHeaders == [ContentDisposition |-> <<>>, ContentLength |-> <<>>]

\* An outcome: exit is "return" (the handler returned after answering), "fatal"
\* (log.Fatal/log.Fatalf ended the process: nothing is answered, no deferred call
\* runs), "continue" (the handler goes on to its next store call) or "none".
\* calls: the store calls of this step; err: the error the step handled, at
\* site; opened/closed: the content stream of the invocation; meta, ghost:
\* bookkeeping for the properties (the metadata the store reported; whether
\* another request interfered between the invocation's store calls).
Outcome(req, exit, status, body) ==
    [req |-> req, exit |-> exit, status |-> status, body |-> body,
     headers |-> NoHeaders, err |-> Nil, site |-> "", calls |-> <<>>,
     opened |-> FALSE, closed |-> FALSE, meta |-> NoMeta, ghost |-> FALSE]

NoBody == [none |-> TRUE]
NoOutcome == Outcome(NoReq, "none", 0, NoBody)

\* c.JSON(status, body)
JSON(req, status, body) == Outcome(req, "return", status, body)

\* variant: the error is logged with log.Printf and answered, the process lives on
FatalAnswered(req, site, err) ==
    [Outcome(req, "return", 500, NoBody) EXCEPT !.err = err, !.site = site]

\* log.Fatal / log.Fatalf: os.Exit(1)
Fatal(req, site, err) ==
    [Outcome(req, "fatal", 0, NoBody) EXCEPT !.err = err, !.site = site]

\* variant: the stream is closed at the end of the success path, not by defer
RunDefersOnSuccessOnly(out, deferredClose) ==
    IF out.exit = "return" /\ out.status = 200 /\ deferredClose
    THEN [out EXCEPT !.closed = TRUE] ELSE out

\* a deferred Close runs when the handler returns, not when the process exits
RunDefers(out, deferredClose) ==
    IF out.exit = "return" /\ deferredClose THEN [out EXCEPT !.closed = TRUE] ELSE out

-----------------------------------------------------------------------------
(* The handlers *)

\* r.GET("/")
rootHandler ==
    JSON(Req("root", <<>>), 200, [message |-> <<"Hello, Gin!">>])

\* variant: every metadata error is an error answer, NoSuchKey included
isexistHandlerNoSpecialCase(st, name, fault) ==
    LET req == Req("isexist", name)
        r == GetObjectMeta(st, name, fault)
        ans == IF r.err # Nil
               THEN JSON(req, 500, [message |-> <<"Error: ", ErrorString(r.err)>>])
               ELSE JSON(req, 200, [message |-> <<"Object '%s' exists", name>>])
    IN [ans EXCEPT !.err = r.err, !.site = "isexist.GetObjectMeta",
                   !.calls = <<"GetObjectMeta">>]

\* r.GET("/isexist/:name")
isexistHandler(st, name, fault) ==
    LET req == Req("isexist", name)
        r == GetObjectMeta(st, name, fault)
        ans == IF r.err # Nil
               THEN IF r.err.kind = "service"
                    THEN IF r.err.code = "NoSuchKey"
                         THEN JSON(req, 200,
                                   [message |-> <<"Object '%s' does not exist", name>>])
                         ELSE JSON(req, 500,
                                   [message |-> <<"Error checking object: ", r.err.message>>])
                    ELSE JSON(req, 500, [message |-> <<"Error: ", ErrorString(r.err)>>])
               ELSE JSON(req, 200, [message |-> <<"Object '%s' exists", name>>])
    IN [ans EXCEPT !.err = r.err, !.site = "isexist.GetObjectMeta",
                   !.calls = <<"GetObjectMeta">>]

\* locals of a handler invocation that is waiting partway through
Locals(op, key) ==
    [op |-> op, key |-> key, ext |-> <<>>, meta |-> NoMeta,
     filename |-> <<>>, opened |-> FALSE,
     marker |-> <<>>, allObjects |-> <<>>, ghost |-> FALSE]

\* variant: the return after the metadata error is missing
downloadMetaNoReturn(st, objectName, fault) ==
    LET req == Req("download", objectName)
        r == GetObjectMeta(st, objectName, fault)
    IN [out |-> [Outcome(req, "continue", 0, NoBody) EXCEPT !.calls = <<"GetObjectMeta">>],
        rec |-> [Locals("download", objectName)
                    EXCEPT !.ext = resolveExt(objectName), !.meta = r.meta]]

\* r.GET("/download/:object"), up to the metadata fetch
downloadMeta(st, objectName, fault) ==
    LET req == Req("download", objectName)
        ext == resolveExt(objectName)
        r == GetObjectMeta(st, objectName, fault)
    IN IF r.err # Nil
       THEN [out |-> [JSON(req, 500, [message |-> <<"Failed to get object metadata">>])
                         EXCEPT !.err = r.err, !.site = "download.GetObjectMeta",
                                !.calls = <<"GetObjectMeta">>],
             rec |-> Locals("download", objectName)]
       ELSE [out |-> [Outcome(req, "continue", 0, NoBody)
                         EXCEPT !.calls = <<"GetObjectMeta">>],
             rec |-> [Locals("download", objectName)
                         EXCEPT !.ext = ext, !.meta = r.meta]]

\* c.Header("Content-Disposition", ...), c.Header("Content-Length", ...)
downloadHeaders(rec) ==
    [ContentDisposition |-> <<"attachment; filename=">> \o rec.filename,
     ContentLength |-> SprintfD([type |-> "[]string", val |-> rec.meta.ContentLength])]

\* r.GET("/download/:object"), from the content fetch to the response headers;
\* the handler then waits in io.Copy with the stream open
downloadFetch(st, rec, fault, timestamp, draws) ==
    LET req == Req("download", rec.key)
        r == GetObject(st, rec.key, fault)
        next == [rec EXCEPT !.opened = TRUE, !.ghost = FALSE,
                            !.filename = generateRandomFilename(rec.ext, timestamp, draws)]
    IN IF r.err # Nil
       THEN [out |-> [Fatal(req, "download.GetObject", r.err)
                         EXCEPT !.calls = <<"GetObject">>, !.meta = rec.meta,
                                !.ghost = rec.ghost],
             rec |-> rec]
       ELSE [out |-> [Outcome(req, "continue", 0, NoBody)
                         EXCEPT !.calls = <<"GetObject">>, !.meta = rec.meta,
                                !.headers = downloadHeaders(next), !.opened = TRUE],
             rec |-> next]

\* r.GET("/download/:object"), from the end of io.Copy on
downloadCopy(rec, copyFails) ==
    LET req == Req("download", rec.key)
        ans == IF copyFails
               THEN [JSON(req, 500, [message |-> <<"Failed to send file to client">>])
                        EXCEPT !.err = CopyError, !.site = "download.Copy"]
               ELSE JSON(req, 200, [message |-> <<"File downloaded successfully">>,
                                    file |-> rec.filename])
    IN RunDefers([ans EXCEPT !.headers = downloadHeaders(rec), !.opened = rec.opened,
                             !.meta = rec.meta],
                 TRUE)

NoForm == [file |-> FALSE, Filename |-> <<>>, Size |-> 0]

\* variant: a request without the file field is answered 500
uploadHandlerMissingFile500(st, form, openFails, fault) ==
    LET req == [op |-> "upload", key |-> form.Filename, file |-> form.file]
        r == PutObject(st, form.Filename, form.Size, fault)
    IN IF ~form.file
       THEN [out |-> [JSON(req, 500, [message |-> <<"Failed to get file">>])
                         EXCEPT !.err = MissingFile, !.site = "upload.FormFile"],
             store |-> st]
       ELSE IF openFails
       THEN [out |-> Fatal(req, "upload.Open", OpenError), store |-> st]
       ELSE IF r.err # Nil
       THEN [out |-> [Fatal(req, "upload.PutObject", r.err)
                         EXCEPT !.opened = TRUE, !.calls = <<"PutObject">>],
             store |-> r.store]
       ELSE [out |-> [RunDefers([JSON(req, 200,
                                      [message |-> <<"File uploaded successfully">>])
                                    EXCEPT !.opened = TRUE], TRUE)
                         EXCEPT !.calls = <<"PutObject">>],
             store |-> r.store]

\* variant: the error of PutObject is not looked at
uploadHandlerIgnoresPutError(st, form, openFails, fault) ==
    LET req == [op |-> "upload", key |-> form.Filename, file |-> form.file]
        r == PutObject(st, form.Filename, form.Size, fault)
    IN IF ~form.file
       THEN [out |-> [JSON(req, 400, [message |-> <<"Failed to get file">>])
                         EXCEPT !.err = MissingFile, !.site = "upload.FormFile"],
             store |-> st]
       ELSE IF openFails
       THEN [out |-> Fatal(req, "upload.Open", OpenError), store |-> st]
       ELSE [out |-> [RunDefers([JSON(req, 200,
                                      [message |-> <<"File uploaded successfully">>])
                                    EXCEPT !.opened = TRUE], TRUE)
                         EXCEPT !.calls = <<"PutObject">>],
             store |-> r.store]

\* r.POST("/upload")
uploadHandler(st, form, openFails, fault) ==
    LET req == [op |-> "upload", key |-> form.Filename, file |-> form.file]
        r == PutObject(st, form.Filename, form.Size, fault)
    IN IF ~form.file
       THEN [out |-> [JSON(req, 400, [message |-> <<"Failed to get file">>])
                         EXCEPT !.err = MissingFile, !.site = "upload.FormFile"],
             store |-> st]
       ELSE IF openFails
       THEN [out |-> Fatal(req, "upload.Open", OpenError), store |-> st]
       ELSE IF r.err # Nil
       THEN [out |-> [Fatal(req, "upload.PutObject", r.err)
                         EXCEPT !.opened = TRUE, !.calls = <<"PutObject">>],
             store |-> r.store]
       ELSE [out |-> [RunDefers([JSON(req, 200,
                                      [message |-> <<"File uploaded successfully">>])
                                    EXCEPT !.opened = TRUE], TRUE)
                         EXCEPT !.calls = <<"PutObject">>],
             store |-> r.store]

\* variant: the handler looks the key up first and refuses a missing one
deleteHandlerChecksExistence(st, objectName, fault) ==
    LET req == Req("delete", objectName)
        r == DeleteObject(st, objectName, fault)
        ans == IF r.err # Nil \/ st[objectName] = Absent
               THEN JSON(req, 500,
                         [status |-> "error",
                          message |-> <<"Failed to delete object: %s", ErrorString(r.err)>>])
               ELSE JSON(req, 200,
                         [status |-> "success",
                          message |-> <<"Object '%s' deleted successfully", objectName>>])
    IN [out |-> [ans EXCEPT !.err = r.err, !.site = "delete.DeleteObject",
                            !.calls = <<"DeleteObject">>],
        store |-> r.store]

\* r.DELETE("/delete/:object")
deleteHandler(st, objectName, fault) ==
    LET req == Req("delete", objectName)
        r == DeleteObject(st, objectName, fault)
        ans == IF r.err # Nil
               THEN JSON(req, 500,
                         [status |-> "error",
                          message |-> <<"Failed to delete object: %s", ErrorString(r.err)>>])
               ELSE JSON(req, 200,
                         [status |-> "success",
                          message |-> <<"Object '%s' deleted successfully", objectName>>])
    IN [out |-> [ans EXCEPT !.err = r.err, !.site = "delete.DeleteObject",
                            !.calls = <<"DeleteObject">>],
        store |-> r.store]

\* variant: each page replaces the keys gathered so far
listPageDropsEarlierPages(st, rec, maxKeys, fault) ==
    LET req == Req("list", <<>>)
        lsRes == ListObjects(st, rec.marker, maxKeys, fault)
        all == lsRes.Objects
    IN IF lsRes.err # Nil
       THEN [out |-> [Fatal(req, "list.ListObjects", lsRes.err)
                         EXCEPT !.calls = <<"ListObjects">>],
             rec |-> rec]
       ELSE IF lsRes.IsTruncated
       THEN [out |-> [Outcome(req, "continue", 0, NoBody)
                         EXCEPT !.calls = <<"ListObjects">>],
             rec |-> [rec EXCEPT !.marker = lsRes.NextMarker, !.allObjects = all]]
       ELSE [out |-> [JSON(req, 200, [status |-> "success",
                                      message |-> <<"All objects have been listed">>,
                                      objects |-> all])
                         EXCEPT !.calls = <<"ListObjects">>, !.ghost = rec.ghost],
             rec |-> rec]

\* r.GET("/list"): one turn of the loop over the pages
listPage(st, rec, maxKeys, fault) ==
    LET req == Req("list", <<>>)
        lsRes == ListObjects(st, rec.marker, maxKeys, fault)
        all == rec.allObjects \o lsRes.Objects
    IN IF lsRes.err # Nil
       THEN [out |-> [Fatal(req, "list.ListObjects", lsRes.err)
                         EXCEPT !.calls = <<"ListObjects">>],
             rec |-> rec]
       ELSE IF lsRes.IsTruncated
       THEN [out |-> [Outcome(req, "continue", 0, NoBody)
                         EXCEPT !.calls = <<"ListObjects">>],
             rec |-> [rec EXCEPT !.marker = lsRes.NextMarker, !.allObjects = all]]
       ELSE [out |-> [JSON(req, 200, [status |-> "success",
                                      message |-> <<"All objects have been listed">>,
                                      objects |-> all])
                         EXCEPT !.calls = <<"ListObjects">>, !.ghost = rec.ghost],
             rec |-> rec]

\* r.GET("/invertcode/:audio")
invertcodeHandler(st, audio, fault) ==
    LET req == Req("invertcode", audio)
        r == GetObject(st, audio, fault)
        ans == IF r.err # Nil
               THEN [JSON(req, 500, [status |-> "error",
                                     message |-> <<"Failed to get object">>])
                        EXCEPT !.err = r.err, !.site = "invertcode.GetObject"]
               ELSE [JSON(req, 200, [message |-> <<"invertcode success">>,
                                     file |-> "object"])
                        EXCEPT !.opened = TRUE]
    IN [RunDefers(ans, r.err = Nil) EXCEPT !.calls = <<"GetObject">>]

-----------------------------------------------------------------------------
(* The server: requests are served concurrently, each handler step is one  *)
(* store call together with the local work around it                       *)

One(rec) == SetToBag({rec})

\* bookkeeping: what a change of the store means to the invocations in flight
Touch(B, st, st2) ==
    LET F(rec) ==
            IF rec.op = "list" /\ Present(st2) # Present(st)
            THEN [rec EXCEPT !.ghost = TRUE]
            ELSE IF /\ rec.op = "download"
                    /\ ~rec.opened
                    /\ st[rec.key] # Absent
                    /\ st2[rec.key] = Absent
            THEN [rec EXCEPT !.ghost = TRUE]
            ELSE rec
        D == {F(x) : x \in DOMAIN B}
    IN [y \in D |-> BagCardinality([x \in {z \in DOMAIN B : F(z) = y} |-> B[x]])]

Objects == {Absent} \cup {<<n>> : n \in Sizes}

Forms == {NoForm} \cup [file : {TRUE}, Filename : Keys, Size : Sizes]

KeyChars == {"a", ".", "_"}

RECURSIVE StringsUpTo(_)
StringsUpTo(n) ==
    IF n = 0 THEN {<<>>}
    ELSE LET S == StringsUpTo(n - 1)
         IN S \cup {Append(x, c) : x \in {y \in S : Len(y) = n - 1}, c \in KeyChars}

NameKeys == StringsUpTo(MaxKeyLen) \ {<<>>}

NoWatch == [key |-> <<>>, stage |-> "none"]

Succeeded(out, op) == out.req.op = op /\ out.exit = "return" /\ out.status = 200

\* bookkeeping: the observer follows the key of a successful upload, or stays
\* with the key it follows; a successful delete of that key ends its round trip
Watched(w, out) ==
    IF Succeeded(out, "upload")
    THEN {[key |-> out.req.key, stage |-> "uploaded"]}
         \cup (IF w.key # out.req.key THEN {w} ELSE {})
    ELSE IF Succeeded(out, "delete") /\ w.key = out.req.key
    THEN {[w EXCEPT !.stage = "deleted"]}
    ELSE {w}

NoInput == [key |-> <<>>, timestamp |-> 0, draws |-> <<>>]

Init ==
    /\ store \in [Keys -> Objects]
    /\ alive = TRUE
    /\ inflight = EmptyBag
    /\ last = NoOutcome
    /\ watch = NoWatch
    /\ fnIn = NoInput
    /\ fnOut = <<>>

\* the effect of one handler step
Step(out, st2, infl2) ==
    /\ watch' \in Watched(watch, out)
    /\ last' = out
    /\ alive' = (out.exit # "fatal")
    /\ store' = st2
    /\ inflight' = IF st2 = store THEN infl2 ELSE Touch(infl2, store, st2)
    /\ UNCHANGED <<fnIn, fnOut>>

Root ==
    /\ alive
    /\ Step(rootHandler, store, inflight)

IsExist ==
    /\ alive
    /\ \E name \in Keys, fault \in Faults :
          Step(isexistHandler(store, name, fault), store, inflight)

DownloadStart ==
    /\ alive
    /\ BagCardinality(inflight) < MaxInFlight
    /\ \E objectName \in Keys, fault \in Faults :
          LET r == downloadMeta(store, objectName, fault)
          IN Step(r.out, store,
                  IF r.out.exit = "continue" THEN inflight (+) One(r.rec) ELSE inflight)

DownloadFetch ==
    /\ alive
    /\ \E rec \in DOMAIN inflight :
          /\ rec.op = "download"
          /\ ~rec.opened
          /\ \E fault \in Faults :
                \E timestamp \in Timestamps,
                   draws \in (IF fault = Nil THEN RandomDraws
                              ELSE {CHOOSE d \in RandomDraws : TRUE}) :
                   LET r == downloadFetch(store, rec, fault, timestamp, draws)
                   IN Step(r.out, store,
                           IF r.out.exit = "continue"
                           THEN (inflight (-) One(rec)) (+) One(r.rec)
                           ELSE inflight (-) One(rec))

DownloadCopy ==
    /\ alive
    /\ \E rec \in DOMAIN inflight :
          /\ rec.op = "download"
          /\ rec.opened
          /\ \E copyFails \in BOOLEAN :
                Step(downloadCopy(rec, copyFails), store, inflight (-) One(rec))

\* what may go wrong around a handler is drawn when the handler gets there
Upload ==
    /\ alive
    /\ \E form \in Forms :
          \E openFails \in (IF form.file THEN BOOLEAN ELSE {FALSE}) :
             \E fault \in (IF form.file /\ ~openFails THEN Faults ELSE {Nil}) :
                LET r == uploadHandler(store, form, openFails, fault)
                IN Step(r.out, r.store, inflight)

Delete ==
    /\ alive
    /\ \E objectName \in Keys, fault \in Faults :
          LET r == deleteHandler(store, objectName, fault)
          IN Step([r.out EXCEPT !.ghost = (store[objectName] # Absent)],
                  r.store, inflight)

ListStart ==
    /\ alive
    /\ BagCardinality(inflight) < MaxInFlight
    /\ \E fault \in Faults :
       \E maxKeys \in (IF fault = Nil THEN 1..MaxPage ELSE {1}) :
          LET r == listPage(store, Locals("list", <<>>), maxKeys, fault)
          IN Step(r.out, store,
                  IF r.out.exit = "continue" THEN inflight (+) One(r.rec) ELSE inflight)

ListContinue ==
    /\ alive
    /\ \E rec \in DOMAIN inflight :
          /\ rec.op = "list"
          /\ \E fault \in Faults :
             \E maxKeys \in (IF fault = Nil THEN 1..MaxPage ELSE {1}) :
                LET r == listPage(store, rec, maxKeys, fault)
                IN Step(r.out, store,
                        IF r.out.exit = "continue"
                        THEN (inflight (-) One(rec)) (+) One(r.rec)
                        ELSE inflight (-) One(rec))

InvertCode ==
    /\ alive
    /\ \E audio \in Keys, fault \in Faults :
          Step(invertcodeHandler(store, audio, fault), store, inflight)

Next ==
    \/ Root
    \/ IsExist
    \/ DownloadStart
    \/ DownloadFetch
    \/ DownloadCopy
    \/ Upload
    \/ Delete
    \/ ListStart
    \/ ListContinue
    \/ InvertCode

Spec == Init /\ [][Next]_vars

-----------------------------------------------------------------------------
(* The file-name generation on its own, over many keys *)

InitName ==
    /\ store = [k \in Keys |-> Absent]
    /\ alive = TRUE
    /\ inflight = EmptyBag
    /\ last = NoOutcome
    /\ watch = NoWatch
    /\ fnIn \in [key : NameKeys, timestamp : NameTimes, draws : RandomDraws]
    /\ fnOut = <<>>

Generate ==
    /\ fnOut = <<>>
    /\ fnOut' = generateRandomFilename(resolveExt(fnIn.key), fnIn.timestamp, fnIn.draws)
    /\ UNCHANGED <<store, alive, inflight, last, watch, fnIn>>

NextName == Generate

SpecName == InitName /\ [][NextName]_vars

-----------------------------------------------------------------------------
(* Properties *)

Answered(op) == last.req.op = op /\ last.exit = "return"

SaysExists(k) == [message |-> <<"Object '%s' exists", k>>]
SaysMissing(k) == [message |-> <<"Object '%s' does not exist", k>>]

\* C1: an existence check whose metadata call succeeded or failed with
\* NoSuchKey is answered 200, "exists" for a key in the store and "does not
\* exist" for a key not in it; an existence check is never answered 404.
C1_ExistenceCheck ==
    Answered("isexist") =>
        /\ last.status # 404
        /\ (last.err = Nil \/ last.err.code = "NoSuchKey") =>
              /\ last.status = 200
              /\ store[last.req.key] # Absent => last.body = SaysExists(last.req.key)
              /\ store[last.req.key] = Absent => last.body = SaysMissing(last.req.key)

C1_Witness ==
    /\ Answered("isexist")
    /\ last.err = NoSuchKey
    /\ store[last.req.key] = Absent
    /\ last.status = 200
    /\ last.body = SaysMissing(last.req.key)

\* C2: an existence check of f that is answered after a successful upload of f,
\* with no delete of f since, says "exists"; answered after a later successful
\* delete of f, with no upload of f since, it says "does not exist".
C2_RoundTrip ==
    (Answered("isexist") /\ last.status = 200 /\ last.req.key = watch.key) =>
        /\ watch.stage = "uploaded" => last.body = SaysExists(watch.key)
        /\ watch.stage = "deleted" => last.body = SaysMissing(watch.key)

C2_Witness ==
    /\ Answered("isexist")
    /\ last.req.key = watch.key
    /\ watch.stage = "deleted"
    /\ last.body = SaysMissing(watch.key)

\* C3: a listing during which the set of keys in the store did not change
\* answers with exactly the keys in the store, each once, in the store's
\* order, however the store cut them into pages.
C3_ListComplete ==
    (Answered("list") /\ ~last.ghost) =>
        /\ last.status = 200
        /\ last.body.objects = InOrder(Present(store))

C3_Witness ==
    /\ Answered("list")
    /\ ~last.ghost
    /\ Len(last.body.objects) > MaxPage

FatalSites == {"upload.Open", "download.GetObject", "upload.PutObject", "list.ListObjects"}

\* C4 as stated: a failing call ends the process exactly at the four sites;
\* every other failing call is answered 400 or 500 and the process lives on.
C4_AsStated ==
    /\ last.exit = "fatal" => (last.site \in FatalSites /\ last.err # Nil /\ ~alive)
    /\ last.err # Nil =>
          IF last.site \in FatalSites
          THEN last.exit = "fatal" /\ ~alive
          ELSE last.exit = "return" /\ last.status \in {400, 500} /\ alive

\* C4, amended: as stated, except that the metadata fetch of an existence
\* check failing with NoSuchKey is answered 200.
C4_FatalSites ==
    /\ last.exit = "fatal" => (last.site \in FatalSites /\ last.err # Nil /\ ~alive)
    /\ last.err # Nil =>
          IF last.site \in FatalSites
          THEN last.exit = "fatal" /\ ~alive
          ELSE /\ last.exit = "return"
               /\ alive
               /\ IF last.site = "isexist.GetObjectMeta" /\ last.err.code = "NoSuchKey"
                  THEN last.status = 200
                  ELSE last.status \in {400, 500}

C4_Witness ==
    /\ last.exit = "fatal"
    /\ last.site = "upload.PutObject"
    /\ ~alive

\* C5: a delete that the store does not fail is answered 200 "success" and
\* leaves the key absent; when the key was absent before, the store is as it
\* was; the same delete repeated gives the same answer and the same store; a
\* delete is answered 500 "error" exactly when the store call failed, and the
\* store is then as it was.
C5_DeleteIdempotent ==
    /\ [](Answered("delete") =>
            /\ last.err = Nil =>
                  /\ last.status = 200
                  /\ last.body.status = "success"
                  /\ store[last.req.key] = Absent
                  /\ LET again == deleteHandler(store, last.req.key, Nil)
                     IN /\ again.out.status = last.status
                        /\ again.out.body = last.body
                        /\ again.store = store
            /\ last.err # Nil => (last.status = 500 /\ last.body.status = "error")
            /\ last.status \in {200, 500})
    /\ [][(last'.req.op = "delete" /\ last'.exit = "return") =>
            /\ (store[last'.req.key] = Absent \/ last'.err # Nil) => store' = store
            /\ \A k \in Keys \ {last'.req.key} : store'[k] = store[k]]_vars

C5_Witness ==
    /\ Answered("delete")
    /\ ~last.ghost
    /\ last.status = 200
    /\ last.body.status = "success"

\* C6: an upload request without the form field "file" is answered 400 with
\* {"message": "Failed to get file"}, makes no store call, leaves the store
\* as it was and the process running.
C6_UploadWithoutFile ==
    [][(last'.req.op = "upload" /\ ~last'.req.file) =>
          /\ last'.exit = "return"
          /\ last'.status = 400
          /\ last'.body = [message |-> <<"Failed to get file">>]
          /\ last'.calls = <<>>
          /\ store' = store
          /\ alive']_vars

C6_Witness ==
    /\ Answered("upload")
    /\ ~last.req.file
    /\ last.status = 400
    /\ alive

IsDecimal(str) ==
    /\ str # <<>>
    /\ \A i \in 1..Len(str) : \E d \in 1..Len(Digits) : Digits[d] = str[i]

\* C7: a successful download carries Content-Length set to the size the
\* store's metadata reported, in plain decimal, and a Content-Disposition
\* naming the generated file.
C7_ContentLength ==
    (Answered("download") /\ last.status = 200) =>
        /\ IsDecimal(last.headers.ContentLength)
        /\ last.headers.ContentLength = last.meta.ContentLength[1]
        /\ last.headers.ContentDisposition = <<"attachment; filename=">> \o last.body.file

Alnum == {Ascii[i] : i \in (3..12) \cup (13..38) \cup (40..65)}

RECURSIVE DecValue(_)
DecValue(str) ==
    IF str = <<>> THEN 0
    ELSE 10 * DecValue(SubSeq(str, 1, Len(str) - 1))
         + ((CHOOSE d \in 1..Len(Digits) : Digits[d] = str[Len(str)]) - 1)

\* the suffix of a key from its last dot on, or .bin for a key without dot
ExpectedExt(key) ==
    LET dots == {i \in 1..Len(key) : key[i] = "."}
    IN IF dots = {} THEN <<".", "b", "i", "n">>
       ELSE SubSeq(key, CHOOSE i \in dots : \A j \in dots : j <= i, Len(key))

\* C8: a generated file name is the clock reading in decimal, an underscore,
\* ten characters of [a-zA-Z0-9] and the resolved extension, which is the
\* key's suffix from its last dot on, or .bin; it is never empty.
C8_FilenameForm ==
    fnOut # <<>> =>
        LET us == {i \in 1..Len(fnOut) : fnOut[i] = "_"}
            u == CHOOSE i \in us : \A j \in us : i <= j
            stamp == SubSeq(fnOut, 1, u - 1)
            ext == SubSeq(fnOut, u + 11, Len(fnOut))
        IN /\ us # {}
           /\ IsDecimal(stamp)
           /\ DecValue(stamp) = fnIn.timestamp
           /\ Len(fnOut) >= u + 11
           /\ \A i \in (u + 1)..(u + 10) : fnOut[i] \in Alnum
           /\ ext = ExpectedExt(fnIn.key)
           /\ ext # <<>>

C8_Witness ==
    /\ fnOut # <<>>
    /\ \A i \in 1..Len(fnIn.key) : fnIn.key[i] # "."
    /\ SubSeq(fnOut, Len(fnOut) - 3, Len(fnOut)) = <<".", "b", "i", "n">>

\* C9: a handler that returns has closed the content stream it opened, and
\* has closed none that it did not open.
C9_StreamsClosed ==
    last.exit = "return" => (last.opened <=> last.closed)

C9_Witness ==
    /\ Answered("download")
    /\ last.status = 500
    /\ last.opened
    /\ last.closed

\* C10: a download whose content fetch ends the process although no delete
\* removed its key between its two store calls met a failure of the store
\* itself; with such a delete the content fetch fails with NoSuchKey. Once
\* the process has ended no handler takes a further step.
C10_DownloadRace ==
    (last.exit = "fatal" /\ last.req.op = "download") =>
        /\ last.site = "download.GetObject"
        /\ ~alive
        /\ ~ENABLED Next
        /\ ~last.ghost => last.err \in {ServiceFault, TransportFault}

C10_Witness ==
    /\ last.exit = "fatal"
    /\ last.site = "download.GetObject"
    /\ last.err = NoSuchKey
    /\ last.ghost
    /\ ~alive

====
